---- MODULE Spec2Model ----
\* Ephemeral-artifact lifecycle manager of file-tools-app:
\*   apps/backend/src/lib/deleteScheduler.ts  (markers, timers, sweep, hydration)
\*   the server's entry file                  (routes that write, download, supersede)
\*
\* Time is a discrete clock `now`.  One clock unit stands for a fixed number
\* of milliseconds; the delays of the program keep their order
\* (IMMEDIATE_DELETE < TEN_MIN < sweep interval < ONE_DAY) but not their
\* magnitude.  Timers and the interval callback run as soon as they are due:
\* the clock does not advance past a due callback of a running process.
\*
\* Two specifications bound what the clients ask for.  Spec: they trim the
\* video they uploaded and download any file.  SpecChain: they also trim the
\* trimmed file, and download the last file of that chain.  The others each
\* add one thing to the uploaded video and its downloads: SpecWorkspace the
\* upload directories and the requests that fail, SpecDisk a disk found at
\* startup, SpecCancel a caller of clearScheduledDeletion, SpecFault (and
\* SpecFaultFair) filesystem calls that throw, SpecRace a writer racing with
\* safeDelete, SpecTree an output root with nested directories.
EXTENDS Integers, Sequences, FiniteSets, TLC

\* ---------------------------------------------------------------- bounds
MaxTime == 12       \* the clock stops here
MaxTimers == 3      \* platform timers that may be scheduled at once
MaxBuilds == 1      \* trim builds that may run at once
StartTime == 5      \* Date.now() of the first boot, later than ONE_DAY after the epoch

\* ------------------------------------------------------- program constants
IMMEDIATE_DELETE == 0
TEN_MIN == 2
ONE_DAY == 4
SWEEP_INTERVAL == 3

\* ------------------------------------------------------- paths
\* <outputRoot>/<requestId>/<artifact>: request R1 is a /api/video/trim/init
\* request, R1/a the video it stores, R1/b the file a trim build makes of
\* R1/a and R1/c the file a trim build makes of R1/b
Dirs == {"R1"}

\* the ids withTempWorkspace gives out: R2 is a request to a route that writes
\* nothing into its workspace (every /api route gets one)
Requests == {"R1", "R2"}
DirSeq == <<"R1", "R2">>
Paths == {"R1/a", "R1/b", "R1/c"}
PathSeq == <<"R1/a", "R1/b", "R1/c">>

\* the files a trim build is asked to cut: the uploaded video, or that and the
\* trimmed file made of it
Uploads == {"R1/a"}
Sources == {"R1/a", "R1/b"}

\* the file of the last build of the chain
Products == {"R1/c"}

\* the file name writeOut gets from /api/video/trim/init
initPath(d) == "R1/a"

\* outPath of /api/video/trim/build: <base>_trimmed.mp4 next to the source
trimOutPath(p) == IF p = "R1/a" THEN "R1/b" ELSE "R1/c"

\* path.dirname
dirname(p) == "R1"

\* ------------------------------------------------------- text of a marker
Digits == <<"0", "1", "2", "3", "4", "5", "6", "7", "8", "9">>

DigitChars == {Digits[i] : i \in 1..10}

DigitVal(c) == (CHOOSE i \in 1..10 : Digits[i] = c) - 1

\* Number.prototype.toString for a non-negative integer
RECURSIVE toString(_)
toString(n) ==
  IF n < 10 THEN <<Digits[n + 1]>>
  ELSE toString(n \div 10) \o <<Digits[(n % 10) + 1]>>

\* String.prototype.trim (the only white space of the model is " ")
RECURSIVE trimLeft(_)
trimLeft(s) == IF s # <<>> /\ Head(s) = " " THEN trimLeft(Tail(s)) ELSE s

RECURSIVE trimRight(_)
trimRight(s) ==
  IF s # <<>> /\ s[Len(s)] = " " THEN trimRight(SubSeq(s, 1, Len(s) - 1)) ELSE s

trim(s) == trimRight(trimLeft(s))

\* longest prefix of decimal digits
RECURSIVE DigitPrefix(_)
DigitPrefix(s) ==
  IF s # <<>> /\ Head(s) \in DigitChars
  THEN <<Head(s)>> \o DigitPrefix(Tail(s))
  ELSE <<>>

RECURSIVE DigitsValue(_)
DigitsValue(s) ==
  IF s = <<>> THEN 0
  ELSE 10 * DigitsValue(SubSeq(s, 1, Len(s) - 1)) + DigitVal(s[Len(s)])

\* parseInt(s, 10): the value of the leading digits, NaN when there is none
parseInt(s) ==
  LET d == DigitPrefix(trimLeft(s))
  IN IF d = <<>> THEN [nan |-> TRUE, val |-> 0]
     ELSE [nan |-> FALSE, val |-> DigitsValue(d)]

\* ------------------------------------------------------- state
VARIABLES
  now,         \* Date.now()
  up,          \* the server process is running
  dirs,        \* request directories that exist under the output root
  uploads,     \* request directories that exist under the upload root
  files,       \* files[p] = <<>> (absent) or <<mtime>>
  created,     \* created[p] = <<>> (absent) or <<text of p.created>>
  downloaded,  \* downloaded[p] = <<>> (absent) or <<text of p.downloaded>>
  timers,      \* the module's Map: path -> id of the Timeout it holds
  live,        \* Timeouts scheduled on the platform: [id, path, due]
  nextSweep,   \* due time of the next setInterval callback
  inflight,    \* paths with a res.download transfer in progress
  req,         \* req[d]: the request with id d is "new", "active" (its handler
               \* runs), "done", or "failed" (no workspace)
  builds,      \* trim builds per source: before (probed) and after (writing) ffmpeg
               \* has created its output
  lost,        \* history: the Timeouts the last stop of the process discarded
  cancelled,   \* history: the paths whose last arm a clearScheduledDeletion
               \* call has undone
  tree         \* an output root with nested directories, as the sweep may
               \* find one: the directories, the file and the stray marker
               \* each one holds

vars == <<now, up, dirs, uploads, files, created, downloaded, timers, live,
          nextSweep, inflight, req, builds, lost, cancelled, tree>>

\* the part of the state the scheduler's functions read and write
Store == [dirs |-> dirs, files |-> files, created |-> created,
          downloaded |-> downloaded, timers |-> timers, live |-> live]

\* ------------------------------------------------------- filesystem helpers
\* fs.existsSync
existsSync(f, p) == f[p] # <<>>

\* fs.readdirSync(dir).length === 0
DirIsEmpty(st, d) ==
  \A p \in Paths :
    dirname(p) = d =>
      /\ ~existsSync(st.files, p)
      /\ ~existsSync(st.created, p)
      /\ ~existsSync(st.downloaded, p)

\* ------------------------------------------------------- markCreated
\* writeFileSync creates or overwrites the marker; it throws, and the throw is
\* caught, when the parent directory does not exist
markCreated(st, p, t) ==
  IF dirname(p) \in st.dirs
  THEN [st EXCEPT !.created[p] = <<toString(t)>>]
  ELSE st

\* ------------------------------------------------------- clearScheduledDeletion
clearScheduledDeletion(st, p) ==
  IF p \in DOMAIN st.timers
  THEN [st EXCEPT
          !.live = {t \in st.live : t.id # st.timers[p]},
          !.timers = [q \in (DOMAIN st.timers) \ {p} |-> st.timers[q]]]
  ELSE st

\* ------------------------------------------------------- safeDelete
\* What can go wrong in the filesystem during one call: nothing, or the
\* removal named throws.
Faults == {"none", "file", "downloaded", "created", "rmdir"}

\* safeDeleteTry with the emptiness check of the folder made before the
\* markers are removed
safeDeleteTryDirFirst(st, p, fault) ==
  LET s1 == IF existsSync(st.files, p) THEN [st EXCEPT !.files[p] = <<>>] ELSE st
      d == dirname(p)
      s2 == IF d \in s1.dirs /\ DirIsEmpty(s1, d)
            THEN [s1 EXCEPT !.dirs = s1.dirs \ {d}] ELSE s1
  IN [s2 EXCEPT !.downloaded[p] = <<>>, !.created[p] = <<>>]

\* safeDeleteTry that removes the folder, with what is in it, without reading
\* it first
safeDeleteTryRmdirAlways(st, p, fault) ==
  LET d == dirname(p)
      wiped(m) == [q \in Paths |-> IF dirname(q) = d THEN <<>> ELSE m[q]]
  IN IF d \in st.dirs
     THEN [st EXCEPT !.files = wiped(st.files),
                     !.created = wiped(st.created),
                     !.downloaded = wiped(st.downloaded),
                     !.dirs = st.dirs \ {d}]
     ELSE [st EXCEPT !.files[p] = <<>>, !.created[p] = <<>>,
                     !.downloaded[p] = <<>>]

\* the body of the try block up to the first throw
safeDeleteTry(st, p, fault) ==
  LET s1 == IF existsSync(st.files, p) /\ fault # "file"
            THEN [st EXCEPT !.files[p] = <<>>] ELSE st
      stop1 == existsSync(st.files, p) /\ fault = "file"
      s2 == IF ~stop1 /\ existsSync(s1.downloaded, p) /\ fault # "downloaded"
            THEN [s1 EXCEPT !.downloaded[p] = <<>>] ELSE s1
      stop2 == stop1 \/ (existsSync(s1.downloaded, p) /\ fault = "downloaded")
      s3 == IF ~stop2 /\ existsSync(s2.created, p) /\ fault # "created"
            THEN [s2 EXCEPT !.created[p] = <<>>] ELSE s2
      stop3 == stop2 \/ (existsSync(s2.created, p) /\ fault = "created")
      d == dirname(p)
  IN IF ~stop3 /\ d \in s3.dirs /\ DirIsEmpty(s3, d) /\ fault # "rmdir"
     THEN [s3 EXCEPT !.dirs = s3.dirs \ {d}]
     ELSE s3

\* safeDelete without its finally block
safeDeleteNoFinally(st, p, fault) == safeDeleteTry(st, p, fault)

\* try { ... } catch { log } finally { timers.delete(filePath) }
safeDelete(st, p, fault) ==
  LET s == safeDeleteTry(st, p, fault)
  IN [s EXCEPT !.timers = [q \in (DOMAIN s.timers) \ {p} |-> s.timers[q]]]

\* the platform takes a due Timeout off its list and runs () => safeDelete(filePath)
timerCallback(st, t) ==
  safeDelete([st EXCEPT !.live = st.live \ {t}], t.path, "none")

\* ------------------------------------------------------- scheduleDeletion
\* an id no scheduled Timeout carries
FreshId(st) == CHOOSE i \in 1..MaxTimers :
                 /\ i \notin {t.id : t \in st.live}
                 /\ \A j \in 1..(i - 1) : j \in {t.id : t \in st.live}

CanSchedule(st) == Cardinality(st.live) < MaxTimers

\* setTimeout runs a delay that is NaN, like one below 1, after 1 ms: less
\* than a unit of the clock
TimeoutDelay(delay) == IF delay.nan THEN 0 ELSE delay.val

Num(n) == [nan |-> FALSE, val |-> n]

scheduleDeletion(st, p, delay, t) ==
  LET s1 == clearScheduledDeletion(st, p)
      s2 == IF dirname(p) \in s1.dirs
            THEN [s1 EXCEPT !.downloaded[p] = <<toString(t)>>]
            ELSE s1
      id == FreshId(s2)
  IN [s2 EXCEPT
        !.live = s2.live \cup {[id |-> id, path |-> p, due |-> t + TimeoutDelay(delay)]},
        !.timers = [q \in (DOMAIN s2.timers) \cup {p} |->
                      IF q = p THEN id ELSE s2.timers[q]]]

\* ------------------------------------------------------- purgeOlderThan
\* Number.isFinite(ts) ? ts : 0
FiniteOrZero(n) == IF n.nan THEN 0 ELSE n.val

\* st.mtimeMs || st.ctimeMs || now   (a file written once: ctime = mtime)
StatTime(st, p, t) ==
  LET m == st.files[p][1] IN IF m # 0 THEN m ELSE t

\* createdAt that falls back on the file's times for a marker that is not a
\* number
createdAtMtimeFallback(st, p, t) ==
  IF existsSync(st.created, p) /\ ~parseInt(trim(st.created[p][1])).nan
  THEN parseInt(trim(st.created[p][1])).val
  ELSE StatTime(st, p, t)

\* the time the sweep measures the age of file p from
createdAt(st, p, t) ==
  IF existsSync(st.created, p)
  THEN FiniteOrZero(parseInt(trim(st.created[p][1])))
  ELSE StatTime(st, p, t)

\* purgeFile that leaves a file with a .downloaded marker to its grace Timeout
purgeFileNotDownloaded(st, p, t, ttlMs) ==
  IF /\ existsSync(st.files, p)
     /\ ~existsSync(st.downloaded, p)
     /\ t - createdAt(st, p, t) >= ttlMs
  THEN safeDelete(st, p, "none")
  ELSE st

\* the branch of walk for one regular file that is not a marker
purgeFile(st, p, t, ttlMs) ==
  IF existsSync(st.files, p) /\ t - createdAt(st, p, t) >= ttlMs
  THEN safeDelete(st, p, "none")
  ELSE st

\* the branch of walk for a directory, after the recursion into it
purgeDir(st, d) ==
  IF d \in st.dirs /\ DirIsEmpty(st, d)
  THEN [st EXCEPT !.dirs = st.dirs \ {d}]
  ELSE st

\* The walk visits the entries in readdir order.  What it does for one file
\* touches only that file, its markers, its timer entry and its directory,
\* so the result does not depend on the order; PathSeq fixes one.
RECURSIVE purgeFiles(_, _, _, _)
purgeFiles(st, i, t, ttlMs) ==
  IF i > Len(PathSeq) THEN st
  ELSE purgeFiles(purgeFile(st, PathSeq[i], t, ttlMs), i + 1, t, ttlMs)

RECURSIVE purgeDirs(_, _)
purgeDirs(st, i) ==
  IF i > Len(DirSeq) THEN st ELSE purgeDirs(purgeDir(st, DirSeq[i]), i + 1)

purgeOlderThan(st, t, ttlMs) == purgeDirs(purgeFiles(st, 1, t, ttlMs), 1)

\* ------------------------------------------------------- hydrateFromDisk
\* hydrateMarker that re-arms with the whole grace period
hydrateMarkerFullGrace(st, p, t, downloadDelayMs) ==
  IF ~existsSync(st.downloaded, p) THEN st
  ELSE IF ~existsSync(st.files, p)
  THEN [st EXCEPT !.downloaded[p] = <<>>]
  ELSE LET ts == parseInt(trim(st.downloaded[p][1]))
           remaining == IF ts.nan THEN ts
                        ELSE Num(downloadDelayMs - (t - ts.val))
       IN IF ~remaining.nan /\ remaining.val <= 0
          THEN safeDelete(st, p, "none")
          ELSE scheduleDeletion(st, p, Num(downloadDelayMs), t)

\* hydrateMarker that deletes only when the grace period is over by more
\* than nothing (remaining < 0)
hydrateMarkerStrict(st, p, t, downloadDelayMs) ==
  IF ~existsSync(st.downloaded, p) THEN st
  ELSE IF ~existsSync(st.files, p)
  THEN [st EXCEPT !.downloaded[p] = <<>>]
  ELSE LET ts == parseInt(trim(st.downloaded[p][1]))
           remaining == IF ts.nan THEN ts
                        ELSE Num(downloadDelayMs - (t - ts.val))
       IN IF ~remaining.nan /\ remaining.val < 0
          THEN safeDelete(st, p, "none")
          ELSE scheduleDeletion(st, p, remaining, t)

\* hydrateMarker without the look at the artifact
hydrateMarkerArmOrphan(st, p, t, downloadDelayMs) ==
  IF ~existsSync(st.downloaded, p) THEN st
  ELSE LET ts == parseInt(trim(st.downloaded[p][1]))
           remaining == IF ts.nan THEN ts
                        ELSE Num(downloadDelayMs - (t - ts.val))
       IN IF ~remaining.nan /\ remaining.val <= 0
          THEN safeDelete(st, p, "none")
          ELSE scheduleDeletion(st, p, remaining, t)

\* the branch of walk for one file whose name ends with .downloaded
hydrateMarker(st, p, t, downloadDelayMs) ==
  IF ~existsSync(st.downloaded, p) THEN st
  ELSE IF ~existsSync(st.files, p)
  THEN [st EXCEPT !.downloaded[p] = <<>>]
  ELSE LET ts == parseInt(trim(st.downloaded[p][1]))
           remaining == IF ts.nan THEN ts
                        ELSE Num(downloadDelayMs - (t - ts.val))
       IN IF ~remaining.nan /\ remaining.val <= 0
          THEN safeDelete(st, p, "none")
          ELSE scheduleDeletion(st, p, remaining, t)

RECURSIVE hydrateWalk(_, _, _, _)
hydrateWalk(st, i, t, downloadDelayMs) ==
  IF i > Len(PathSeq) THEN st
  ELSE hydrateWalk(hydrateMarker(st, PathSeq[i], t, downloadDelayMs),
                   i + 1, t, downloadDelayMs)

\* hydrateFromDisk without the sweep at startup
hydrateWithoutSweep(st, t, downloadDelayMs, ttlMs) ==
  hydrateWalk(st, 1, t, downloadDelayMs)

hydrateFromDisk(st, t, downloadDelayMs, ttlMs) ==
  purgeOlderThan(hydrateWalk(st, 1, t, downloadDelayMs), t, ttlMs)

\* ------------------------------------------------------- purgeOlderThan on nested directories
\* directories below the output root ("."), each with its parent
TreeDirs == {"A", "A/B", "A/B/C", "D"}

Parent(d) ==
  IF d = "A/B/C" THEN "A/B" ELSE IF d = "A/B" THEN "A" ELSE "."

\* the directories of a directory in readdir order
ChildSeq(d) ==
  IF d = "." THEN <<"A", "D">>
  ELSE IF d = "A" THEN <<"A/B">>
  ELSE IF d = "A/B" THEN <<"A/B/C">>
  ELSE <<>>

NoTree == [dirs |-> {}, file |-> [d \in TreeDirs |-> <<>>],
           orphan |-> [d \in TreeDirs |-> FALSE]]

\* fs.readdirSync(d).length === 0
TreeEmpty(tr, d) ==
  /\ tr.file[d] = <<>>
  /\ ~tr.orphan[d]
  /\ \A c \in tr.dirs : Parent(c) # d

\* fs.rmSync(d, { force: true, recursive: true })
RECURSIVE Below(_, _)
Below(c, d) == c # "." /\ (Parent(c) = d \/ Below(Parent(c), d))

rmTree(tr, d) ==
  [tr EXCEPT !.dirs = {c \in tr.dirs : c # d /\ ~Below(c, d)},
             !.file = [c \in TreeDirs |->
                         IF c = d \/ Below(c, d) THEN <<>> ELSE tr.file[c]],
             !.orphan = [c \in TreeDirs |->
                           IF c = d \/ Below(c, d) THEN FALSE ELSE tr.orphan[c]]]

\* safeDelete of the file of directory d, which has no markers: the file,
\* then its folder when that leaves it empty
safeDeleteInTree(tr, d) ==
  LET s1 == [tr EXCEPT !.file[d] = <<>>]
  IN IF d \in s1.dirs /\ TreeEmpty(s1, d) THEN rmTree(s1, d) ELSE s1

\* the branch of walk for the file of directory d: no .created marker, the
\* age is taken from mtimeMs
visitFile(tr, d, t, ttlMs) ==
  IF tr.file[d] # <<>> /\ t - tr.file[d][1] >= ttlMs
  THEN safeDeleteInTree(tr, d)
  ELSE tr

RECURSIVE walkTree(_, _, _, _, _)
RECURSIVE walkDirs(_, _, _, _, _, _)

\* the branch of walk for a directory that tests for emptiness before the
\* recursion instead of after it
visitDirTestFirst(tr, c, t, ttlMs, fileFirst) ==
  IF c \in tr.dirs /\ TreeEmpty(tr, c)
  THEN rmTree(tr, c)
  ELSE walkTree(tr, c, t, ttlMs, fileFirst)

\* the branch of walk for a directory: walk(full), then remove it if it
\* exists and is empty
visitDir(tr, c, t, ttlMs, fileFirst) ==
  LET s1 == walkTree(tr, c, t, ttlMs, fileFirst)
  IN IF c \in s1.dirs /\ TreeEmpty(s1, c) THEN rmTree(s1, c) ELSE s1

\* the directory entries cs of one readdirSync, in turn; an entry that is
\* in the listing is visited
walkDirs(tr, cs, i, t, ttlMs, fileFirst) ==
  IF i > Len(cs) THEN tr
  ELSE walkDirs(visitDir(tr, cs[i], t, ttlMs, fileFirst), cs, i + 1,
                t, ttlMs, fileFirst)

\* walk(d): the entries readdirSync lists, the file before or after the
\* directories; marker files are passed over
walkTree(tr, d, t, ttlMs, fileFirst) ==
  LET listed == SelectSeq(ChildSeq(d), LAMBDA c : c \in tr.dirs)
      hasFile == d # "." /\ tr.file[d] # <<>>
  IN IF fileFirst
     THEN walkDirs(IF hasFile THEN visitFile(tr, d, t, ttlMs) ELSE tr,
                   listed, 1, t, ttlMs, fileFirst)
     ELSE LET s1 == walkDirs(tr, listed, 1, t, ttlMs, fileFirst)
          IN IF hasFile THEN visitFile(s1, d, t, ttlMs) ELSE s1

purgeTree(tr, t, ttlMs, fileFirst) == walkTree(tr, ".", t, ttlMs, fileFirst)

\* ------------------------------------------------------- initial state
NoBuilds == [p \in Sources |-> [probed |-> 0, writing |-> 0]]

NoFiles == [p \in Paths |-> <<>>]

\* first boot on an empty output root: hydration finds nothing, the interval
\* is started
Init ==
  /\ now = StartTime
  /\ up = TRUE
  /\ dirs = {}
  /\ uploads = {}
  /\ files = NoFiles
  /\ created = NoFiles
  /\ downloaded = NoFiles
  /\ timers = <<>>
  /\ live = {}
  /\ nextSweep = StartTime + SWEEP_INTERVAL
  /\ inflight = {}
  /\ req = [d \in Requests |-> "new"]
  /\ builds = NoBuilds
  /\ lost = {}
  /\ cancelled = {}
  /\ tree = NoTree

\* What a process finds when it starts on an output root it did not write
\* alone: R1/a with any modification time and any marker texts (none, a time
\* before or at the start, an empty file, letters, digits then letters),
\* next to it R1/b without markers or nothing.
MTimes == {0, 1, StartTime}
MarkerTexts == {<<"1">>, toString(StartTime), <<>>, <<"x">>, <<"5", "x">>}
AnyFile == {<<>>} \cup {<<m>> : m \in MTimes}
AnyMarker == {<<>>} \cup {<<s>> : s \in MarkerTexts}

InitDisk ==
  /\ now = StartTime
  /\ up = FALSE
  /\ dirs = {"R1"}
  /\ uploads = {}
  /\ \E fa \in AnyFile, fb \in {<<>>, <<StartTime>>} :
       files = [p \in Paths |-> IF p = "R1/a" THEN fa
                                ELSE IF p = "R1/b" THEN fb ELSE <<>>]
  /\ \E ca \in AnyMarker :
       created = [p \in Paths |-> IF p = "R1/a" THEN ca ELSE <<>>]
  /\ \E da \in AnyMarker :
       downloaded = [p \in Paths |-> IF p = "R1/a" THEN da ELSE <<>>]
  /\ timers = <<>>
  /\ live = {}
  /\ nextSweep = StartTime + SWEEP_INTERVAL
  /\ inflight = {}
  /\ req = [d \in Requests |-> "new"]
  /\ builds = NoBuilds
  /\ lost = {}
  /\ cancelled = {}
  /\ tree = NoTree

\* A running process whose output root holds nested directories: any set
\* of them that holds the parent of each member, in each one a file last
\* modified more than ONE_DAY ago, or now, or none, and a marker without
\* artifact or none.
TreeFiles == {<<>>, <<1>>, <<StartTime>>}

InitTree ==
  /\ now = StartTime
  /\ up = TRUE
  /\ dirs = {}
  /\ uploads = {}
  /\ files = NoFiles
  /\ created = NoFiles
  /\ downloaded = NoFiles
  /\ timers = <<>>
  /\ live = {}
  /\ nextSweep = StartTime + SWEEP_INTERVAL
  /\ inflight = {}
  /\ req = [d \in Requests |-> "new"]
  /\ builds = NoBuilds
  /\ lost = {}
  /\ cancelled = {}
  /\ \E ds \in SUBSET TreeDirs :
       /\ \A d \in ds : Parent(d) = "." \/ Parent(d) \in ds
       /\ \E f \in [TreeDirs -> TreeFiles], o \in [TreeDirs -> BOOLEAN] :
            /\ \A d \in TreeDirs \ ds : f[d] = <<>> /\ ~o[d]
            /\ tree = [dirs |-> ds, file |-> f, orphan |-> o]

\* assign the scheduler's part of the state
SetStore(st) ==
  /\ dirs' = st.dirs
  /\ files' = st.files
  /\ created' = st.created
  /\ downloaded' = st.downloaded
  /\ timers' = st.timers
  /\ live' = st.live

\* ------------------------------------------------------- actions
\* cleanupDir given the upload root instead of the request's directory
cleanupDirRoot(u, d) == {}

\* res.on('finish'): cleanupDir(uploadDir), rmSync recursive and force when
\* the directory exists
cleanupDir(u, d) == u \ {d}

\* withTempWorkspace: a request gets a new id, its two directories and the
\* 'finish' hook, and next() runs its handler
Provision(d) ==
  /\ up
  /\ req[d] = "new"
  /\ req' = [req EXCEPT ![d] = "active"]
  /\ uploads' = uploads \cup {d}
  /\ dirs' = dirs \cup {d}
  /\ UNCHANGED <<now, up, files, created, downloaded, timers, live, nextSweep,
                 inflight, builds, lost, cancelled, tree>>

\* withTempWorkspace with the mkdirSync calls in a try block that swallows the
\* throw: the hook is registered and next() runs the handler
ProvisionFailAbsorbed(d) ==
  /\ up
  /\ req[d] = "new"
  /\ req' = [req EXCEPT ![d] = "active"]
  /\ \/ uploads' = uploads
     \/ uploads' = uploads \cup {d}
  /\ UNCHANGED <<now, up, dirs, files, created, downloaded, timers, live,
                 nextSweep, inflight, builds, lost, cancelled, tree>>

\* withTempWorkspace when mkdirSync throws, for the upload directory or, after
\* that one is made, for the output directory: the throw leaves the
\* middleware before res.on and next()
ProvisionFail(d) ==
  /\ up
  /\ req[d] = "new"
  /\ req' = [req EXCEPT ![d] = "failed"]
  /\ \/ uploads' = uploads
     \/ uploads' = uploads \cup {d}
  /\ UNCHANGED <<now, up, dirs, files, created, downloaded, timers, live,
                 nextSweep, inflight, builds, lost, cancelled, tree>>

\* /api/video/trim/init: writeOut(outputDir, filename, data), the response,
\* and the workspace's hook on its 'finish'
WriteOut(d) ==
  /\ up
  /\ req[d] = "active"
  /\ d \in dirs
  /\ req' = [req EXCEPT ![d] = "done"]
  /\ SetStore(markCreated([Store EXCEPT !.files[initPath(d)] = <<now>>],
                          initPath(d), now))
  /\ uploads' = cleanupDir(uploads, d)
  /\ UNCHANGED <<now, up, nextSweep, inflight, builds, lost, cancelled, tree>>

\* the handler answers without writing: a route that has no use for its
\* workspace, no upload, probeDuration rejects, or writeFileSync throws
\* because the output directory is gone; the response is sent and the
\* workspace's hook runs on its 'finish'
RequestFail(d) ==
  /\ up
  /\ req[d] = "active"
  /\ req' = [req EXCEPT ![d] = "done"]
  /\ uploads' = cleanupDir(uploads, d)
  /\ UNCHANGED <<now, up, dirs, files, created, downloaded, timers, live,
                 nextSweep, inflight, builds, lost, cancelled, tree>>

\* the connection ends before the response is sent: the response emits
\* 'close' and never 'finish'
RequestAbort(d) ==
  /\ up
  /\ req[d] = "active"
  /\ req' = [req EXCEPT ![d] = "done"]
  /\ UNCHANGED <<now, up, dirs, uploads, files, created, downloaded, timers,
                 live, nextSweep, inflight, builds, lost, cancelled, tree>>

\* GET /outputs/:requestId/:filename finds the file and starts res.download
DownloadStart(p) ==
  /\ up
  /\ existsSync(files, p)
  /\ p \notin inflight
  /\ inflight' = inflight \cup {p}
  /\ UNCHANGED <<now, up, dirs, uploads, files, created, downloaded, timers, live,
                 nextSweep, req, builds, lost, cancelled, tree>>

\* the callback of res.download without an error
DownloadDone(p) ==
  /\ up
  /\ p \in inflight
  /\ CanSchedule(Store)
  /\ inflight' = inflight \ {p}
  /\ SetStore(scheduleDeletion(Store, p, Num(TEN_MIN), now))
  /\ cancelled' = cancelled \ {p}
  /\ UNCHANGED <<now, up, uploads, nextSweep, req, builds, lost, tree>>

\* a callback of res.download that schedules the deletion on an error too
DownloadFailArms(p) ==
  /\ up
  /\ p \in inflight
  /\ CanSchedule(Store)
  /\ inflight' = inflight \ {p}
  /\ SetStore(scheduleDeletion(Store, p, Num(TEN_MIN), now))
  /\ cancelled' = cancelled \ {p}
  /\ UNCHANGED <<now, up, uploads, nextSweep, req, builds, lost, tree>>

\* the callback of res.download with an error
DownloadFail(p) ==
  /\ up
  /\ p \in inflight
  /\ inflight' = inflight \ {p}
  /\ UNCHANGED <<now, up, dirs, uploads, files, created, downloaded, timers, live,
                 nextSweep, req, builds, lost, cancelled, tree>>

\* the trim builds in progress
Running(b) ==
  LET n(p) == b[p].probed + b[p].writing
  IN n("R1/a") + n("R1/b")

\* POST /api/video/trim/build up to the start of ffmpeg: the route's
\* probeDuration finds the source
TrimStart(p) ==
  /\ up
  /\ existsSync(files, p)
  /\ Running(builds) < MaxBuilds
  /\ builds' = [builds EXCEPT ![p].probed = @ + 1]
  /\ UNCHANGED <<now, up, dirs, uploads, files, created, downloaded, timers, live,
                 nextSweep, inflight, req, lost, cancelled, tree>>

\* trimVideoFile probes the source again and ffmpeg opens it, then creates
\* (or truncates) the output file next to it
TrimOpen(p) ==
  /\ up
  /\ builds[p].probed > 0
  /\ existsSync(files, p)
  /\ dirname(p) \in dirs
  /\ builds' = [builds EXCEPT ![p] = [probed |-> @.probed - 1,
                                      writing |-> @.writing + 1]]
  /\ files' = [files EXCEPT ![trimOutPath(p)] = <<now>>]
  /\ UNCHANGED <<now, up, dirs, uploads, created, downloaded, timers, live, nextSweep,
                 inflight, req, lost, cancelled, tree>>

\* ffmpeg ends and trimVideoFile finds the output on disk; the route marks
\* the output created and schedules the source for deletion at once
TrimFinish(p) ==
  /\ up
  /\ builds[p].writing > 0
  /\ existsSync(files, trimOutPath(p))
  /\ CanSchedule(Store)
  /\ builds' = [builds EXCEPT ![p].writing = @ - 1]
  /\ LET q == trimOutPath(p)
         written == [Store EXCEPT !.files[q] = <<now>>]
     IN SetStore(scheduleDeletion(markCreated(written, q, now),
                                  p, Num(IMMEDIATE_DELETE), now))
  /\ UNCHANGED <<now, up, uploads, nextSweep, inflight, req, lost, cancelled, tree>>

\* the build fails: the source is gone when ffmpeg starts, ffmpeg reports an
\* error, or the output is not on disk when it ends
TrimFail(p) ==
  /\ up
  /\ \/ /\ builds[p].probed > 0
        /\ builds' = [builds EXCEPT ![p].probed = @ - 1]
     \/ /\ builds[p].writing > 0
        /\ builds' = [builds EXCEPT ![p].writing = @ - 1]
  /\ UNCHANGED <<now, up, dirs, uploads, files, created, downloaded, timers, live,
                 nextSweep, inflight, req, lost, cancelled, tree>>

\* a direct call of the exported clearScheduledDeletion; no route of the
\* server makes one, so it is a step of SpecCancel only
Cancel(p) ==
  /\ up
  /\ SetStore(clearScheduledDeletion(Store, p))
  /\ cancelled' = cancelled \cup {p}
  /\ UNCHANGED <<now, up, uploads, nextSweep, inflight, req, builds, lost, tree>>

\* a Timeout is due: the platform unschedules it and runs its callback
TimerFire(t) ==
  /\ up
  /\ t \in live
  /\ t.due <= now
  /\ SetStore(timerCallback(Store, t))
  /\ UNCHANGED <<now, up, uploads, nextSweep, inflight, req, builds, lost, cancelled, tree>>

\* a Timeout is due and a removal of its safeDelete throws (EACCES, EPERM,
\* EBUSY: rmSync's force covers a missing path only); "none": nothing throws
TimerFireFault(t, fault) ==
  /\ up
  /\ t \in live
  /\ t.due <= now
  /\ SetStore(safeDelete([Store EXCEPT !.live = live \ {t}], t.path, fault))
  /\ UNCHANGED <<now, up, uploads, nextSweep, inflight, req, builds, lost, cancelled, tree>>

\* fs.rmSync(dir, { force: true, recursive: true }): the directory goes with
\* whatever is in it
rmRecursive(st, d) ==
  LET wiped(m) == [q \in Paths |-> IF dirname(q) = d THEN <<>> ELSE m[q]]
  IN [st EXCEPT !.files = wiped(st.files),
                !.created = wiped(st.created),
                !.downloaded = wiped(st.downloaded),
                !.dirs = st.dirs \ {d}]

\* a Timeout for p is due while the ffmpeg of a build of p has p open and
\* has not yet created its output: safeDelete removes p and its markers,
\* readdirSync finds the folder empty, ffmpeg creates the output, and
\* rmSync removes the folder
TimerFireRace(t) ==
  /\ up
  /\ t \in live
  /\ t.due <= now
  /\ builds[t.path].probed > 0
  /\ existsSync(files, t.path)
  /\ LET p == t.path
         d == dirname(p)
         s1 == [Store EXCEPT !.live = live \ {t}, !.files[p] = <<>>,
                             !.downloaded[p] = <<>>, !.created[p] = <<>>]
         s2 == [s1 EXCEPT !.files[trimOutPath(p)] = <<now>>]
         s3 == rmRecursive(s2, d)
     IN /\ d \in dirs
        /\ DirIsEmpty(s1, d)
        /\ SetStore([s3 EXCEPT
                       !.timers = [q \in (DOMAIN s3.timers) \ {p} |-> s3.timers[q]]])
  /\ builds' = [builds EXCEPT ![t.path] = [probed |-> @.probed - 1,
                                           writing |-> @.writing + 1]]
  /\ UNCHANGED <<now, up, uploads, nextSweep, inflight, req, lost, cancelled, tree>>

\* an exception nothing catches ends the process: what Stop does, after the
\* part st of the work that was done before the throw
Crash(st) ==
  /\ up' = FALSE
  /\ dirs' = st.dirs
  /\ files' = st.files
  /\ created' = st.created
  /\ downloaded' = st.downloaded
  /\ timers' = <<>>
  /\ live' = {}
  /\ inflight' = {}
  /\ builds' = NoBuilds
  /\ req' = [d \in Requests |-> IF req[d] = "active" THEN "done" ELSE req[d]]
  /\ lost' = st.live

\* the walk of purgeOlderThan over the first n entries
RECURSIVE purgeFilesBefore(_, _, _, _)
purgeFilesBefore(st, n, t, ttlMs) ==
  IF n = 0 THEN st
  ELSE purgeFile(purgeFilesBefore(st, n - 1, t, ttlMs), PathSeq[n], t, ttlMs)

\* the setInterval callback when readFileSync of a .created marker or
\* statSync of the file throws at entry i of the walk: purgeOlderThan has
\* no try block, the exception leaves the callback
SweepFault(i) ==
  /\ up
  /\ nextSweep <= now
  /\ existsSync(files, PathSeq[i])
  /\ Crash(purgeFilesBefore(Store, i - 1, now, ONE_DAY))
  /\ UNCHANGED <<now, uploads, nextSweep, cancelled, tree>>

\* the setInterval callback of startTtlLoop on the nested output root, with
\* either order of a directory's listing
SweepTree(fileFirst) ==
  /\ up
  /\ nextSweep <= now
  /\ tree' = purgeTree(tree, now, ONE_DAY, fileFirst)
  /\ nextSweep' = nextSweep + SWEEP_INTERVAL
  /\ UNCHANGED <<now, up, dirs, uploads, files, created, downloaded, timers,
                 live, inflight, req, builds, lost, cancelled>>

\* the setInterval callback of startTtlLoop
Sweep ==
  /\ up
  /\ nextSweep <= now
  /\ SetStore(purgeOlderThan(Store, now, ONE_DAY))
  /\ nextSweep' = nextSweep + SWEEP_INTERVAL
  /\ UNCHANGED <<now, up, uploads, inflight, req, builds, lost, cancelled, tree>>

\* the clock advances; a running process first runs what is due
Tick ==
  /\ now < MaxTime
  /\ up => /\ nextSweep > now
           /\ \A t \in live : t.due > now
  /\ now' = now + 1
  /\ UNCHANGED <<up, dirs, uploads, files, created, downloaded, timers, live, nextSweep,
                 inflight, req, builds, lost, cancelled, tree>>

\* the process stops: the Map, the Timeouts, the interval, the open transfers
\* and the running handlers are gone, the disk stays
Stop ==
  /\ up
  /\ up' = FALSE
  /\ timers' = <<>>
  /\ live' = {}
  /\ inflight' = {}
  /\ builds' = NoBuilds
  /\ req' = [d \in Requests |-> IF req[d] = "active" THEN "done" ELSE req[d]]
  /\ lost' = live
  /\ UNCHANGED <<now, dirs, uploads, files, created, downloaded, nextSweep,
                 cancelled, tree>>

\* the process starts: hydrateFromDisk(BASE_OUTPUT_DIR), then startTtlLoop
Startup ==
  /\ ~up
  /\ up' = TRUE
  /\ SetStore(hydrateFromDisk(Store, now, TEN_MIN, ONE_DAY))
  /\ nextSweep' = now + SWEEP_INTERVAL
  /\ lost' = {}
  /\ UNCHANGED <<now, uploads, inflight, req, builds, cancelled, tree>>

\* position of a request directory in the readdir order of the output root
DirIndex(d) == CHOOSE i \in 1..Len(DirSeq) : DirSeq[i] = d

\* the walk of hydrateFromDisk over the .downloaded markers of the first n
\* paths that lie in a directory read before directory d
RECURSIVE hydrateWalkBefore(_, _, _, _, _)
hydrateWalkBefore(st, n, d, t, downloadDelayMs) ==
  IF n = 0 THEN st
  ELSE LET s1 == hydrateWalkBefore(st, n - 1, d, t, downloadDelayMs)
       IN IF DirIndex(dirname(PathSeq[n])) < DirIndex(d)
          THEN hydrateMarker(s1, PathSeq[n], t, downloadDelayMs)
          ELSE s1

\* the process starts and readdirSync of request directory d throws:
\* hydrateFromDisk has no try block, the exception leaves the entry file
\* before the startup sweep, startTtlLoop and app.listen
StartupFault(d) ==
  /\ ~up
  /\ d \in dirs
  /\ Crash(hydrateWalkBefore(Store, Len(PathSeq), d, now, TEN_MIN))
  /\ UNCHANGED <<now, uploads, nextSweep, cancelled, tree>>

\* what the server does whatever the clients ask
Serve ==
  \/ \E d \in Dirs : Provision(d)
  \/ \E d \in Dirs : WriteOut(d)
  \/ \E d \in Dirs : RequestFail(d)
  \/ \E p \in Paths : DownloadDone(p)
  \/ \E p \in Paths : DownloadFail(p)
  \/ \E t \in live : TimerFire(t)
  \/ Sweep
  \/ Tick
  \/ Stop
  \/ Startup

\* clients trim the video they uploaded and download any file
Next ==
  \/ Serve
  \/ \E p \in Paths : DownloadStart(p)
  \/ \E p \in Uploads : TrimStart(p)
  \/ \E p \in Uploads : TrimOpen(p)
  \/ \E p \in Uploads : TrimFinish(p)
  \/ \E p \in Uploads : TrimFail(p)

Spec == Init /\ [][Next]_vars

\* clients also trim the trimmed file, and download the last file of the chain
NextChain ==
  \/ Serve
  \/ \E p \in Products : DownloadStart(p)
  \/ \E p \in Sources : TrimStart(p)
  \/ \E p \in Sources : TrimOpen(p)
  \/ \E p \in Sources : TrimFinish(p)
  \/ \E p \in Sources : TrimFail(p)

SpecChain == Init /\ [][NextChain]_vars

\* the workspaces of two requests, with the failures of provisioning and of
\* the connection; clients download the uploaded video
NextWorkspace ==
  \/ \E d \in Requests : Provision(d)
  \/ \E d \in Requests : ProvisionFail(d)
  \/ \E d \in Dirs : WriteOut(d)
  \/ \E d \in Requests : RequestFail(d)
  \/ \E d \in Requests : RequestAbort(d)
  \/ \E p \in Uploads : DownloadStart(p)
  \/ \E p \in Uploads : DownloadDone(p)
  \/ \E p \in Uploads : DownloadFail(p)
  \/ \E t \in live : TimerFire(t)
  \/ Sweep
  \/ Tick
  \/ Stop
  \/ Startup

SpecWorkspace == Init /\ [][NextWorkspace]_vars

\* the scheduler alone on a disk it finds at startup
NextDisk ==
  \/ \E t \in live : TimerFire(t)
  \/ Sweep
  \/ Tick
  \/ Stop
  \/ Startup

SpecDisk == InitDisk /\ [][NextDisk]_vars

\* the uploaded video, its downloads, and a caller of the exported
\* clearScheduledDeletion
NextCancel ==
  \/ \E d \in Dirs : Provision(d)
  \/ \E d \in Dirs : WriteOut(d)
  \/ \E p \in Uploads : DownloadStart(p)
  \/ \E p \in Uploads : DownloadDone(p)
  \/ \E p \in Uploads : DownloadFail(p)
  \/ \E p \in Uploads : Cancel(p)
  \/ \E t \in live : TimerFire(t)
  \/ Sweep
  \/ Tick
  \/ Stop
  \/ Startup

SpecCancel == Init /\ [][NextCancel]_vars

\* the uploaded video and its downloads on a filesystem whose calls can
\* throw
NextFault ==
  \/ \E d \in Requests : Provision(d)
  \/ \E d \in Dirs : WriteOut(d)
  \/ \E d \in Requests : RequestFail(d)
  \/ \E p \in Uploads : DownloadStart(p)
  \/ \E p \in Uploads : DownloadDone(p)
  \/ \E t \in live, fault \in Faults : TimerFireFault(t, fault)
  \/ Sweep
  \/ \E i \in 1..Len(PathSeq) : SweepFault(i)
  \/ Tick
  \/ Stop
  \/ Startup
  \/ \E d \in Requests : StartupFault(d)

SpecFault == Init /\ [][NextFault]_vars

\* SpecFault with the scheduling of the platform and of its operator: a due
\* Timeout runs, a due pass of the interval runs, the clock goes on, and
\* the process is stopped and started again time after time, getting
\* through its hydration
SpecFaultFair ==
  /\ SpecFault
  /\ WF_vars(\E t \in live, fault \in Faults : TimerFireFault(t, fault))
  /\ WF_vars(Tick)
  /\ []<>(~(up /\ nextSweep <= now))
  /\ []<>up
  /\ []<>(~up)

\* the uploaded video, its downloads and its trim builds, with ffmpeg
\* writing into the request folder while a Timeout's safeDelete runs
NextRace ==
  \/ \E d \in Dirs : Provision(d)
  \/ \E d \in Dirs : WriteOut(d)
  \/ \E p \in Uploads : DownloadStart(p)
  \/ \E p \in Uploads : DownloadDone(p)
  \/ \E p \in Uploads : TrimStart(p)
  \/ \E p \in Uploads : TrimOpen(p)
  \/ \E p \in Uploads : TrimFinish(p)
  \/ \E p \in Uploads : TrimFail(p)
  \/ \E t \in live : TimerFire(t)
  \/ \E t \in live : TimerFireRace(t)
  \/ Sweep
  \/ Tick

SpecRace == Init /\ [][NextRace]_vars

\* the interval's sweep on an output root with nested directories
NextTree ==
  \/ \E fileFirst \in BOOLEAN : SweepTree(fileFirst)
  \/ Tick

SpecTree == InitTree /\ [][NextTree]_vars

\* ------------------------------------------------------- vocabulary of the claims
\* the Timeouts scheduled for path p
LiveFor(l, p) == {t \in l : t.path = p}

\* the Timeout the Map holds for p
Mapped(t) == t.path \in DOMAIN timers /\ timers[t.path] = t.id

\* the text of a marker as a number, when it is one
MarkerTime(m, p) == parseInt(trim(m[p][1]))

\* p's Map entry is a Timeout set TEN_MIN after the time its .downloaded
\* marker records: the last arm of p was a completed download
ArmedByDownload(p) ==
  /\ existsSync(downloaded, p)
  /\ ~MarkerTime(downloaded, p).nan
  /\ \E t \in live :
       /\ t.path = p
       /\ Mapped(t)
       /\ t.due = MarkerTime(downloaded, p).val + TEN_MIN

Gone(f, c, dl, p) ==
  ~existsSync(f, p) /\ ~existsSync(c, p) /\ ~existsSync(dl, p)

\* ------------------------------------------------------- C1
\* C1: in every reachable state each path has at most one scheduled Timeout,
\* and that Timeout is the one the timer Map holds for the path.
C1_OneLiveTimerPerPath ==
  \A p \in Paths :
    /\ Cardinality(LiveFor(live, p)) <= 1
    /\ \A t \in LiveFor(live, p) : Mapped(t)

\* ------------------------------------------------------- C2
\* C2: after each of a series of arm calls for p made before any of their
\* Timeouts fires, exactly one deletion of p is pending, it is due the given
\* delay after that call: the Timeouts of the earlier calls are cancelled and
\* none of them executes.
C2_LastArmWins ==
  [][ /\ \A p \in Paths :
           DownloadDone(p) =>
             /\ Cardinality(LiveFor(live', p)) = 1
             /\ \A t \in LiveFor(live', p) : t.due = now + TEN_MIN
      /\ \A p \in Sources :
           TrimFinish(p) =>
             /\ Cardinality(LiveFor(live', p)) = 1
             /\ \A t \in LiveFor(live', p) : t.due = now + IMMEDIATE_DELETE
    ]_vars

\* ------------------------------------------------------- C3
\* C3: an artifact that was marked created and whose download completed at t
\* is not deleted before t + TEN_MIN unless the retention ceiling is reached
\* (no further download, no restart), and when its Timeout fires at
\* t + TEN_MIN the artifact and both markers are gone.
C3_GraceThenGone ==
  [][ \A p \in Paths :
        (ArmedByDownload(p) /\ existsSync(files, p) /\ existsSync(created, p) /\ up') =>
          /\ (now < MarkerTime(downloaded, p).val + TEN_MIN /\ ~existsSync(files', p))
               => now - createdAt(Store, p, now) >= ONE_DAY
          /\ \A t \in LiveFor(live, p) :
               (Mapped(t) /\ TimerFire(t)) => Gone(files', created', downloaded', p)
    ]_vars

\* ------------------------------------------------------- C4
\* C4: deleteNow is idempotent.  From every reachable state a second
\* safeDelete of the same path changes nothing on disk or in the Map,
\* whatever the filesystem would answer to a removal (none is attempted),
\* and a grace Timeout and a sweep deleting the same path end in the same
\* state in either order.
C4_SafeDeleteIdempotent ==
  \A p \in Paths :
    LET s1 == safeDelete(Store, p, "none")
    IN /\ \A f \in Faults : safeDelete(s1, p, f) = s1
       /\ \A t \in LiveFor(live, p) :
            safeDelete(timerCallback(Store, t), p, "none")
              = timerCallback(safeDelete(Store, p, "none"), t)

\* a due Timeout is about to run deleteNow on a path the sweep has deleted
C4_Witness ==
  \E t \in live : up /\ t.due <= now /\ Gone(files, created, downloaded, t.path)

\* ------------------------------------------------------- C5
\* the .created marker of p is numeric and at least ONE_DAY old
PastCeiling(p) ==
  /\ existsSync(files, p)
  /\ existsSync(created, p)
  /\ ~MarkerTime(created, p).nan
  /\ now - MarkerTime(created, p).val >= ONE_DAY

\* C5: a sweep pass (the interval's or the startup one) deletes every file
\* whose .created marker is at least ONE_DAY older than the pass, whether or
\* not it has a .downloaded marker or a pending grace Timeout.
C5_SweepIgnoresDownloads ==
  [][ (Sweep \/ Startup) =>
        \A p \in Paths : PastCeiling(p) => ~existsSync(files', p) ]_vars

\* a pass is due on a file past the ceiling that was downloaded a moment ago
\* and has its grace Timeout pending
C5_Witness ==
  \E p \in Paths :
    /\ up /\ nextSweep <= now
    /\ PastCeiling(p)
    /\ ArmedByDownload(p)
    /\ now < MarkerTime(downloaded, p).val + TEN_MIN

\* ------------------------------------------------------- C6
\* C6: while the process runs no artifact is older than ONE_DAY plus one
\* sweep interval, and no artifact that is ONE_DAY old or more survives a
\* sweep pass, downloaded or not.
C6_ReclaimedByCeiling ==
  /\ [](up => \A p \in Paths :
                existsSync(files, p) =>
                  now - createdAt(Store, p, now) < ONE_DAY + SWEEP_INTERVAL)
  /\ [][ (Sweep \/ Startup) =>
           \A p \in Paths :
             existsSync(files', p) =>
               now - createdAt([Store EXCEPT !.files = files',
                                             !.created = created'], p, now)
                 < ONE_DAY ]_vars

\* an artifact nobody downloaded is one clock unit from the bound, with the
\* pass that reclaims it due
C6_Witness ==
  \E p \in Paths :
    /\ up /\ nextSweep <= now
    /\ existsSync(files, p) /\ ~existsSync(downloaded, p)
    /\ now - createdAt(Store, p, now) = ONE_DAY + SWEEP_INTERVAL - 1

\* ------------------------------------------------------- C7
\* at startup p exists and its .downloaded marker is numeric and younger
\* than TEN_MIN
InGrace(p) ==
  /\ existsSync(files, p)
  /\ existsSync(downloaded, p)
  /\ ~MarkerTime(downloaded, p).nan
  /\ now - MarkerTime(downloaded, p).val < TEN_MIN

\* hydration has left p in place with a Map entry whose Timeout is due at `due`
RearmedFor(p, due) ==
  /\ existsSync(files', p)
  /\ p \in DOMAIN timers'
  /\ \E t \in live' : t.path = p /\ t.id = timers'[p] /\ t.due = due

C8_HydrationPurgesExpired ==
  [][ Startup =>
        \A p \in Paths :
          ( /\ existsSync(files, p)
            /\ existsSync(downloaded, p)
            /\ ~MarkerTime(downloaded, p).nan
            /\ now - MarkerTime(downloaded, p).val >= TEN_MIN ) =>
            /\ Gone(files', created', downloaded', p)
            /\ p \notin DOMAIN timers'
            /\ LiveFor(live', p) = {} ]_vars

\* the process is down, the grace period of a downloaded artifact ran out
\* meanwhile, and its retention ceiling is not reached
C8_Witness ==
  \E p \in Paths :
    /\ ~up
    /\ existsSync(files, p)
    /\ existsSync(downloaded, p)
    /\ now - MarkerTime(downloaded, p).val >= TEN_MIN
    /\ now - createdAt(Store, p, now) < ONE_DAY

\* ------------------------------------------------------- C9
\* C9: hydration re-arms an artifact inside its grace period without
\* changing the timestamp in its .downloaded marker.
C9_MarkerKeptOnHydration ==
  [][ Startup =>
        \A p \in Paths :
          (InGrace(p) /\ existsSync(files', p)) =>
            downloaded'[p] = downloaded[p] ]_vars

\* ------------------------------------------------------- C10
\* C10: when hydration returns after a restart, every artifact that had a
\* scheduled deletion Timeout when the process stopped is deleted or has a
\* Timeout in the Map again.
C10_TimersRebuilt ==
  [][ Startup =>
        \A t \in lost :
          \/ ~existsSync(files', t.path)
          \/ /\ t.path \in DOMAIN timers'
             /\ \E u \in live' : u.path = t.path /\ u.id = timers'[t.path]
    ]_vars

\* ------------------------------------------------------- C11
\* C11: in every state of the running process no .downloaded marker is on
\* disk for an artifact that is absent, and no Timeout is scheduled for a path
\* whose artifact does not exist.
C11_NoMarkerWithoutArtifact ==
  up => \A p \in Paths :
          ~existsSync(files, p) =>
            /\ ~existsSync(downloaded, p)
            /\ LiveFor(live, p) = {}

\* ------------------------------------------------------- C12
\* p's .downloaded marker is on disk and p is not
OrphanDownloaded(p) == existsSync(downloaded, p) /\ ~existsSync(files, p)

\* C12: hydration removes a .downloaded marker whose artifact does not exist,
\* arms no Timeout for that path and attempts no deletion of it (a .created
\* marker of the path stays as it is), and returns.
C12_HydrationDropsOrphanMarker ==
  [][ Startup =>
        \A p \in Paths :
          OrphanDownloaded(p) =>
            /\ ~existsSync(downloaded', p)
            /\ p \notin DOMAIN timers'
            /\ LiveFor(live', p) = {}
            /\ created'[p] = created[p]
            /\ up'
    ]_vars

\* the process is about to start on a disk with an orphan .downloaded marker
\* next to a .created marker of the same path
C12_Witness ==
  \E p \in Paths : ~up /\ OrphanDownloaded(p) /\ existsSync(created, p)

\* ------------------------------------------------------- C13
\* a step that writes a .downloaded marker or schedules a Timeout
Arms ==
  \/ \E p \in Paths : existsSync(downloaded', p) /\ downloaded'[p] # downloaded[p]
  \/ ~(live' \subseteq live)

\* C13: a download request that is refused (the file is missing: no transfer
\* starts), that starts, or whose transfer fails writes no .downloaded marker
\* and schedules no Timeout.  The route writes the marker and arms the grace
\* Timeout only in the callback of a transfer that ended without error: for
\* the path of that transfer, TEN_MIN from now, one Timeout per completion.
\* Every other step that arms is a trim build's or hydration's.
C13_OnlyCompletedDownloadArms ==
  [][ /\ \A p \in Paths :
           /\ (DownloadStart(p) \/ DownloadFail(p)) =>
                 /\ ~Arms
                 /\ UNCHANGED <<downloaded, timers, live>>
           /\ DownloadDone(p) =>
                 /\ p \in DOMAIN timers'
                 /\ \E t \in live' :
                      t.id = timers'[p] /\ t.path = p /\ t.due = now + TEN_MIN
                 /\ Cardinality(live') <= Cardinality(live) + 1
                 /\ \A q \in Paths \ {p} :
                      /\ downloaded'[q] = downloaded[q]
                      /\ LiveFor(live', q) = LiveFor(live, q)
                 /\ downloaded'[p] \in {downloaded[p], <<toString(now)>>}
      /\ Arms => \/ \E p \in Paths : DownloadDone(p)
                 \/ \E p \in Sources : TrimFinish(p)
                 \/ Startup
    ]_vars

\* a transfer of a file nobody has downloaded yet is in flight
C13_Witness ==
  \E p \in inflight :
    up /\ existsSync(files, p) /\ ~existsSync(downloaded, p) /\ LiveFor(live, p) = {}

\* ------------------------------------------------------- C14
\* something other than p and its markers is in p's folder
OthersIn(p) ==
  \E q \in Paths \ {p} :
    dirname(q) = dirname(p) /\ ~Gone(files, created, downloaded, q)

\* C14: when a Timeout runs safeDelete(p), p and its two markers are gone
\* afterwards, every other artifact and marker is as before, and p's folder
\* is removed exactly when nothing else is in it.
C14_FolderRemovedWhenEmpty ==
  [][ \A t \in live :
        TimerFire(t) =>
          /\ Gone(files', created', downloaded', t.path)
          /\ \A q \in Paths \ {t.path} :
               /\ files'[q] = files[q]
               /\ created'[q] = created[q]
               /\ downloaded'[q] = downloaded[q]
          /\ dirs' \subseteq dirs
          /\ dirs \ dirs' \subseteq {dirname(t.path)}
          /\ dirname(t.path) \in dirs =>
               (dirname(t.path) \notin dirs' <=> ~OthersIn(t.path))
    ]_vars

\* a Timeout is due for an artifact that has another artifact next to it
C14_Witness ==
  \E t \in live :
    /\ up /\ t.due <= now
    /\ existsSync(files, t.path)
    /\ \E q \in Paths \ {t.path} : existsSync(files, q) /\ existsSync(created, q)

\* a Timeout is due for the only artifact of its folder
C14_WitnessAlone ==
  \E t \in live :
    up /\ t.due <= now /\ existsSync(files, t.path) /\ ~OthersIn(t.path)

\* ------------------------------------------------------- C15
\* p is a file the pass of this step reads as it is now: any file for the
\* interval's pass; for the pass at startup a file without .downloaded marker,
\* which the walk over the markers before it leaves alone
SweptAsIs(p) ==
  existsSync(files, p) /\ (Startup => ~existsSync(downloaded, p))

\* the last-modified time of file p as a pass reads it: the time of the pass
\* stands in for a file whose times are 0
FileTime(p) == IF files[p][1] # 0 THEN files[p][1] ELSE now

\* the time C15 names: the marker's number, else the last-modified time
ClaimedTime(p) ==
  IF existsSync(created, p) /\ ~MarkerTime(created, p).nan
  THEN MarkerTime(created, p).val
  ELSE FileTime(p)

\* the marker's number, 0 for a marker that is not a number; without marker
\* the last-modified time
EffectiveTime(p) ==
  IF existsSync(created, p)
  THEN IF MarkerTime(created, p).nan THEN 0 ELSE MarkerTime(created, p).val
  ELSE FileTime(p)

\* C15 as claimed: a pass deletes a file if and only if it is ONE_DAY old
\* counted from its .created marker when that is present and numeric, and
\* from its last-modified time in every other case.
C15_AgeFromMarkerElseMtime ==
  [][ (Sweep \/ Startup) =>
        \A p \in Paths :
          SweptAsIs(p) =>
            (~existsSync(files', p) <=> now - ClaimedTime(p) >= ONE_DAY)
    ]_vars

\* C15 amended: a pass deletes a file if and only if it is ONE_DAY old counted
\* from the number in its .created marker when the marker is present (0 when
\* its text is not a number), and from its last-modified time only when there
\* is no marker.
C15_AgeFromMarkerOrZero ==
  [][ (Sweep \/ Startup) =>
        \A p \in Paths :
          SweptAsIs(p) =>
            (~existsSync(files', p) <=> now - EffectiveTime(p) >= ONE_DAY)
    ]_vars

\* a process is about to start on a file modified a moment ago whose .created
\* marker is not a number
C15_Witness ==
  \E p \in Paths :
    /\ ~up
    /\ existsSync(files, p) /\ files[p][1] = now
    /\ ~existsSync(downloaded, p)
    /\ existsSync(created, p) /\ MarkerTime(created, p).nan

\* ------------------------------------------------------- C16
\* marker m of p is on disk and its text is not a number
Unparseable(m, p) == existsSync(m, p) /\ MarkerTime(m, p).nan

\* C16: a marker that is not a number counts as 0 for both readers.  A pass
\* deletes a file whose .created marker is not a number, whatever its
\* modification time; hydration has deleted a file whose .downloaded marker
\* is not a number when it returns.
C16_UnparseableMarkerIsZero ==
  [][ /\ (Sweep \/ Startup) =>
           \A p \in Paths :
             (SweptAsIs(p) /\ Unparseable(created, p)) => ~existsSync(files', p)
      /\ Startup =>
           \A p \in Paths :
             (existsSync(files, p) /\ Unparseable(downloaded, p))
               => ~existsSync(files', p)
    ]_vars

\* ------------------------------------------------------- C17
\* the step that ends the provisioned request d: its handler answers, with
\* success or with an error, or its connection ends before the response is
\* sent
RequestOver(d) == WriteOut(d) \/ RequestFail(d) \/ RequestAbort(d)

\* C17: once a provisioned request is over, however it ended, its upload
\* directory does not exist.
C17_UploadDirRemoved ==
  [][ \A d \in Requests : RequestOver(d) => d \notin uploads' ]_vars

\* ------------------------------------------------------- C18
\* C18: when a response finishes, the workspace's hook removes the upload
\* directory of its own request and no other; it leaves the timer Map and the
\* Timeouts alone, and under the output root nothing changes but what the
\* handler itself wrote (nothing, for a handler that answers without
\* writing).
C18_HookRemovesOwnUploadDirOnly ==
  [][ \A d \in Requests :
        /\ (WriteOut(d) \/ RequestFail(d)) =>
             /\ uploads' = uploads \ {d}
             /\ UNCHANGED <<timers, live>>
             /\ dirs' = dirs
        /\ RequestFail(d) => UNCHANGED <<files, created, downloaded>>
    ]_vars

\* two requests are in flight, each with its upload directory
C18_Witness ==
  /\ up
  /\ \A d \in Requests : req[d] = "active" /\ d \in uploads

\* a request is in flight with its upload directory while a Timeout for a
\* product of an earlier request is in the Map
C18_WitnessTimer ==
  /\ up
  /\ \E d \in Requests : req[d] = "active" /\ d \in uploads
  /\ DOMAIN timers # {}

\* ------------------------------------------------------- C19
\* C19: while a request is in flight (its workspace made, its handler not yet
\* finished) its output directory exists: no sweep and no deletion removes
\* the still-empty output directory of a request in flight.
C19_OutputDirWhileInFlight ==
  up => \A d \in Dirs : req[d] = "active" => d \in dirs

\* ------------------------------------------------------- C20
\* C20: when making either workspace directory fails, the failure leaves
\* withTempWorkspace as a throw: the request fails, no handler runs for it
\* with a workspace (nothing is written for it and it is never answered by a
\* route), and no hook is registered (its upload directory, if it was made,
\* is never removed by a hook).
C20_ProvisionFailurePropagates ==
  [][ \A d \in Requests :
        /\ ProvisionFail(d) =>
             /\ req'[d] = "failed"
             /\ UNCHANGED <<dirs, files, created, downloaded, timers, live>>
        /\ req[d] = "failed" =>
             /\ req'[d] = "failed"
             /\ (d \in uploads) = (d \in uploads')
             /\ ~(WriteOut(d) \/ RequestFail(d) \/ RequestAbort(d))
             /\ d \notin dirs'
    ]_vars

\* the output directory of a request could not be made after its upload
\* directory was, while another request is in flight
C20_Witness ==
  \E d, e \in Requests :
     /\ up
     /\ req[d] = "failed"
     /\ d \in uploads
     /\ req[e] = "active"

\* ------------------------------------------------------- C21
\* what clearScheduledDeletion(p) leaves alone: the artifacts, the markers,
\* the directories, and the Map entry and the Timeouts of every other path
CancelFrame(p) ==
  /\ UNCHANGED <<dirs, files, created, downloaded>>
  /\ \A q \in Paths \ {p} :
       /\ LiveFor(live', q) = LiveFor(live, q)
       /\ (q \in DOMAIN timers') = (q \in DOMAIN timers)
       /\ q \in DOMAIN timers => timers'[q] = timers[q]
  /\ p \notin DOMAIN timers => UNCHANGED <<timers, live>>

\* C21: clearScheduledDeletion(p) removes the pending timer of p, so that no
\* Timeout for p is left to fire, and leaves the artifact, both markers, the
\* directories and the timers of the other paths unchanged; with no timer
\* pending for p it changes nothing.
C21_CancelRemovesTimerOnly ==
  [][ \A p \in Paths :
        Cancel(p) =>
          /\ p \notin DOMAIN timers'
          /\ LiveFor(live', p) = {}
          /\ CancelFrame(p)
    ]_vars

\* the part of C21 about the Map's own Timeout and about what is left alone
C21_CancelMappedAndFrame ==
  [][ \A p \in Paths :
        Cancel(p) =>
          /\ p \notin DOMAIN timers'
          /\ \A t \in LiveFor(live', p) : t \in live /\ ~Mapped(t)
          /\ CancelFrame(p)
    ]_vars

\* ------------------------------------------------------- C22
\* C22: once the .created marker of an artifact is written, no later step
\* changes its text while the artifact exists.
C22_CreatedMarkerFixed ==
  [][ \A p \in Paths :
        (/\ existsSync(files, p)
         /\ existsSync(created, p)
         /\ existsSync(files', p)) => created'[p] = created[p]
    ]_vars

\* the part of C22 about every step but the route that calls markCreated a
\* second time: arm, cancel, hydration, sweep, timers
C22_OnlyMarkCreatedRewrites ==
  [][ \A p \in Paths :
        (/\ existsSync(files, p)
         /\ existsSync(created, p)
         /\ existsSync(files', p)
         /\ created'[p] # created[p]) =>
           \E q \in Sources : TrimFinish(q) /\ trimOutPath(q) = p
    ]_vars

\* ------------------------------------------------------- C23
\* C23: when the removal of the artifact file throws inside safeDelete(p),
\* the removals of p.downloaded and p.created are still made (and the look
\* at the parent directory, which the file keeps non-empty), and safeDelete
\* returns.
C23_MarkersRemovedAfterFileFault ==
  [][ \A t \in live :
        (TimerFireFault(t, "file") /\ existsSync(files, t.path)) =>
          /\ ~existsSync(downloaded', t.path)
          /\ ~existsSync(created', t.path)
          /\ existsSync(files', t.path)
          /\ dirs' = dirs
          /\ up'
    ]_vars

\* ------------------------------------------------------- C24
\* C24: when safeDelete(p) returns, whatever removal threw, the Map has no
\* entry for p and safeDelete has scheduled nothing: a Timeout's callback
\* leaves the scheduled Timeouts as they were without its own, a sweep adds
\* none, and a path a sweep or a hydration deleted has no Map entry.
C24_EntryClearedNoRetry ==
  [][ /\ \A t \in live : \A fault \in Faults :
           TimerFireFault(t, fault) =>
             /\ t.path \notin DOMAIN timers'
             /\ live' = live \ {t}
             /\ up'
      /\ Sweep => live' = live
      /\ (Sweep \/ Startup) =>
           \A p \in Paths :
             (existsSync(files, p) /\ ~existsSync(files', p)) =>
               p \notin DOMAIN timers'
    ]_vars

\* a safeDelete has failed on its first removal: the process runs, the
\* artifact and its .downloaded marker are there, and neither the Map nor
\* the platform holds a timer for it
C24_Witness ==
  \E p \in Paths :
     /\ up
     /\ existsSync(files, p)
     /\ existsSync(downloaded, p)
     /\ p \notin DOMAIN timers
     /\ LiveFor(live, p) = {}

\* ------------------------------------------------------- C25
\* C25: when one request directory cannot be read during hydration, the
\* hydration skips it and returns: the process comes up, the .downloaded
\* markers of the other directories are processed (a marker in its grace
\* period gets its Timeout), and the startup sweep runs (a file of another
\* directory that is past the ceiling is deleted).
C25_HydrationSkipsUnreadable ==
  [][ \A d \in Requests :
        StartupFault(d) =>
          /\ up'
          /\ \A p \in Paths :
               dirname(p) # d =>
                 /\ (InGrace(p) /\ ~PastCeiling(p)) => p \in DOMAIN timers'
                 /\ PastCeiling(p) => ~existsSync(files', p)
    ]_vars

\* ------------------------------------------------------- C26
\* C26: a filesystem error met at an entry during a pass of the interval's
\* sweep is absorbed: the process keeps running, the entries after it are
\* still swept (a later file past the ceiling is deleted), and the next pass
\* stays scheduled.
C26_SweepAbsorbsErrors ==
  [][ \A i \in 1..Len(PathSeq) :
        SweepFault(i) =>
          /\ up'
          /\ nextSweep' > now
          /\ \A j \in (i + 1)..Len(PathSeq) :
               PastCeiling(PathSeq[j]) => ~existsSync(files', PathSeq[j])
    ]_vars

\* ------------------------------------------------------- C27
\* C27: when an entry appears in the request folder between safeDelete's
\* look at the folder and its removal of it, the folder and the new entry
\* stay in place and nothing is raised.
C27_RacingEntryKept ==
  [][ \A t \in live :
        TimerFireRace(t) =>
          /\ dirname(t.path) \in dirs'
          /\ existsSync(files', trimOutPath(t.path))
          /\ up'
    ]_vars

\* ------------------------------------------------------- C28
\* C28: after a pass of the sweep no directory below the output root is
\* empty: directories emptied by the pass's deletions are removed bottom-up
\* in that pass, and so is a directory that was empty when visited.
C28_NoEmptyDirAfterSweep ==
  [][ \A fileFirst \in BOOLEAN :
        SweepTree(fileFirst) =>
          /\ \A d \in tree'.dirs : ~TreeEmpty(tree', d)
          /\ \A d \in tree.dirs \ tree'.dirs :
               \A c \in TreeDirs : c = d \/ Below(c, d) =>
                 /\ ~tree.orphan[c]
                 /\ tree.file[c] # <<>> => now - tree.file[c][1] >= ONE_DAY
    ]_vars

\* a pass is due on a chain of three nested directories whose only file, an
\* old one, is in the innermost, next to a directory that is empty
C28_Witness ==
  /\ up
  /\ nextSweep <= now
  /\ tree.dirs = TreeDirs
  /\ tree.file["A/B/C"] # <<>>
  /\ now - tree.file["A/B/C"][1] >= ONE_DAY
  /\ TreeEmpty([tree EXCEPT !.file["A/B/C"] = <<>>], "A/B/C")
  /\ tree.file["A"] = <<>> /\ ~tree.orphan["A"]
  /\ tree.file["A/B"] = <<>> /\ ~tree.orphan["A/B"]
  /\ TreeEmpty(tree, "D")

\* ------------------------------------------------------- C29
\* C29: an artifact whose arm was cancelled, and that was not downloaded
\* again since, is deleted by nothing but the retention ceiling: a step that
\* deletes it, a restart's hydration included, finds it ONE_DAY old.
C29_CancelledOnlyCeiling ==
  [][ \A p \in Paths :
        (/\ p \in cancelled
         /\ existsSync(files, p)
         /\ ~existsSync(files', p)) =>
           now - createdAt(Store, p, now) >= ONE_DAY
    ]_vars

\* the part of C29 about a process that keeps running: until a hydration
\* reads the .downloaded marker the cancel left behind, only the ceiling
\* deletes the artifact
C29_CancelledUntilRestart ==
  [][ \A p \in Paths :
        (/\ p \in cancelled
         /\ p \notin DOMAIN timers
         /\ existsSync(files, p)
         /\ ~existsSync(files', p)
         /\ ~Startup) =>
           now - createdAt(Store, p, now) >= ONE_DAY
    ]_vars

\* ------------------------------------------------------- C30
\* p.created is on disk without p
OrphanCreated(p) == existsSync(created, p) /\ ~existsSync(files, p)

\* C30: every marker file is reclaimed in the end: a .created marker that
\* has lost its artifact, found while a pass of the sweep is still to come,
\* is removed at some later time.
C30_OrphanCreatedReclaimed ==
  \A p \in Paths :
    [](OrphanCreated(p) /\ now + SWEEP_INTERVAL <= MaxTime
         => <>(~existsSync(created, p)))

====
